---- MODULE Spec2Model ----
(***************************************************************************)
(* Model of auth_server/authn/gitea_auth.go: the Gitea authenticator of    *)
(* docker_auth.  Authenticate consults the token database for a bcrypt     *)
(* proof of "user:password", falls back to the Gitea organisations API,    *)
(* and stores a fresh proof with an expiry after a successful lookup.      *)
(*                                                                         *)
(* Several Authenticate calls run concurrently (one per element of Calls). *)
(* A call blocks at three points, which are the steps of the model: the    *)
(* token database read, the HTTP request, the token database write.        *)
(***************************************************************************)
EXTENDS Naturals, Sequences, FiniteSets, TLC

VARIABLES
    gta,        \* the GiteaAuth object: its config and its HTTP client
    db,         \* the token database: a map from the users that have a
                \* value to their TokenDBValue
    now,        \* the wall clock read by time.Now()
    pc,         \* per call: where the call is
    user,       \* per call: the user argument
    password,   \* per call: the password argument
    userPasswd, \* per call: the plain proof, getUserToken(user, password)
    tokErr,     \* per call: the error of getValidToken (line 162)
    req,        \* per call: the HTTP request fetchUserOrgs sent
    http,       \* per call: how the HTTP exchange of fetchUserOrgs went
    orgs,       \* per call: the organisations fetchUserOrgs returned
    fetchErr,   \* per call: the error of fetchUserOrgs (line 166)
    labels,     \* per call: the labels built at lines 171-179
    storeErr,   \* per call: the error of storeToken (line 181)
    result,     \* per call: what Authenticate returned
    wrote       \* history: for each stored value, the call that stored it

vars == <<gta, db, now, pc, user, password, userPasswd, tokErr, req, http,
          orgs, fetchErr, labels, storeErr, result, wrote>>

-----------------------------------------------------------------------------
(* Bounds and the small sets inputs are drawn from. *)

MaxTime == 2

Calls == {"c1", "c2"}
Users == {"alice", "bob"}
Passwords == {"pw1", "pw2"}
Salts == {"s1", "s2"}

\* config.RevalidateAfter, in clock ticks
RevalidateAfter == 1

\* A *GiteaOrganization, lines 43-53: the fields the API fills in.
Org(name, fullName) == [isNil |-> FALSE, Name |-> name, FullName |-> fullName]
\* a JSON null element: a nil *GiteaOrganization
NilOrg == [isNil |-> TRUE, Name |-> "", FullName |-> ""]
NoRequest == [url |-> "", timeout |-> 0, user |-> "", password |-> ""]
NoLabels == {}           \* a nil api.Labels: a map with no key
NotCalled == "notCalled" \* the function was not called in this call
Nil == "nil"             \* a nil error

\* The bodies the organisations API answers with on HTTP 200 that parse.
OrgLists == { <<>>,
              <<Org("teamB", "Team B"), Org("teamA", "Team A")>>,
              <<Org("teamB", "Team B"), NilOrg>> }

\* What gta.client.Do and the reading of the response can end in.
HttpOutcomes == {"transportError", "status401", "statusOther", "readError",
                 "parseError", "ok"}

\* The errors of the package.
WrongPass == "WrongPass"          \* api.WrongPass
NoMatch == "NoMatch"              \* api.NoMatch
ExpiredToken == "ExpiredToken"    \* authn.ExpiredToken
DbReadError == "dbReadError"      \* the error of db.GetValue
DbWriteError == "dbWriteError"    \* the error of db.StoreToken
HashError == "hashError"          \* "could not hash password"

-----------------------------------------------------------------------------
(* getUserToken, lines 157-159 *)
getUserToken(u, pw) == u \o ":" \o pw

(* bcrypt: a salted one-way hash.  The digest is an opaque number, distinct
   for distinct plain texts; comparing recomputes it with the stored salt. *)
PlainProofs == {getUserToken(u, pw) : u \in Users, pw \in Passwords}

Digest == CHOOSE f \in [PlainProofs -> 1..Cardinality(PlainProofs)] :
              \A x, y \in PlainProofs : x # y => f[x] # f[y]

BcryptDigest(salt, plain) == <<salt, Digest[plain]>>

GenerateFromPassword(plain, salt) ==
    [salt |-> salt, digest |-> BcryptDigest(salt, plain)]

CompareHashAndPassword(hash, plain) ==
    BcryptDigest(hash.salt, plain) = hash.digest

-----------------------------------------------------------------------------
(* The token database (TokenDB, tokendb.go: not part of the sources at hand;
   modelled from its contract: get by key, put overwrites the key's value as
   a whole, the last writer wins). *)

\* db.GetValue(user) found a value
HasValue(d, u) == u \in DOMAIN d

\* db.StoreToken(user, v, updatePassword): the value is stored as given; only
\* with updatePassword is a new docker password generated into it.
StoreToken(d, u, v, updatePassword) ==
    LET w == IF updatePassword THEN [v EXCEPT !.DockerPassword = "generated"]
             ELSE v
    IN  [k \in DOMAIN d \cup {u} |-> IF k = u THEN w ELSE d[k]]

-----------------------------------------------------------------------------
\* getValidToken with the expiry test off by one: a value is taken as expired
\* at the instant ValidUntil already.
getValidToken_ExpiresEarly(d, t, u, pw, readFails) ==
    IF readFails THEN DbReadError
    ELSE IF ~HasValue(d, u) THEN NoMatch
    ELSE IF ~CompareHashAndPassword(d[u].AccessToken, getUserToken(u, pw))
         THEN WrongPass
    ELSE IF t >= d[u].ValidUntil THEN ExpiredToken
    ELSE Nil

\* getValidToken without the expiry test
getValidToken_NeverExpires(d, t, u, pw, readFails) ==
    IF readFails THEN DbReadError
    ELSE IF ~HasValue(d, u) THEN NoMatch
    ELSE IF ~CompareHashAndPassword(d[u].AccessToken, getUserToken(u, pw))
         THEN WrongPass
    ELSE Nil

(* getValidToken, lines 111-132: the error it returns.  readFails is the
   outcome of db.GetValue; d and t are the database and the clock it reads. *)
getValidToken(d, t, u, pw, readFails) ==
    IF readFails THEN DbReadError
    ELSE IF ~HasValue(d, u) THEN NoMatch
    ELSE IF ~CompareHashAndPassword(d[u].AccessToken, getUserToken(u, pw))
         THEN WrongPass
    ELSE IF t > d[u].ValidUntil THEN ExpiredToken
    ELSE Nil

\* fetchUserOrgs testing the status for 401 only: any other status is read
\* as a success.
fetchUserOrgs_Only401(outcome) ==
    CASE outcome = "transportError" -> "transportError"
      [] outcome = "status401"      -> WrongPass
      [] outcome = "statusOther"    -> Nil
      [] outcome = "readError"      -> "readError"
      [] outcome = "parseError"     -> "parseError"
      [] outcome = "ok"             -> Nil

\* fetchUserOrgs dropping the error of json.Unmarshal: a body that does not
\* parse is read as no organisations.
fetchUserOrgs_IgnoresParseError(outcome) ==
    CASE outcome = "transportError" -> "transportError"
      [] outcome = "status401"      -> WrongPass
      [] outcome = "statusOther"    -> "statusError"
      [] outcome = "readError"      -> "readError"
      [] outcome = "parseError"     -> Nil
      [] outcome = "ok"             -> Nil

(* fetchUserOrgs, lines 76-109: the error it returns for an outcome of the
   HTTP exchange. *)
fetchUserOrgs(outcome) ==
    CASE outcome = "transportError" -> "transportError"
      [] outcome = "status401"      -> WrongPass
      [] outcome = "statusOther"    -> "statusError"
      [] outcome = "readError"      -> "readError"
      [] outcome = "parseError"     -> "parseError"
      [] outcome = "ok"             -> Nil

\* the labels built from the full names of the organisations
GroupLabels_FullName(os) ==
    { <<"group", [i \in 1..Len(os) |-> os[i].FullName]>> }

(* lines 171-179: the labels built from the organisations; api.Labels is a
   map, here the set of its (key, values) pairs *)
GroupLabels(os) == { <<"group", [i \in 1..Len(os) |-> os[i].Name]>> }

(* storeToken, lines 134-155 *)
\* the value built without the revalidation window added to the clock
TokenValue_NoWindow(u, pw, lbls, t, salt) ==
    [TokenType      |-> "Basic",
     AccessToken    |-> GenerateFromPassword(getUserToken(u, pw), salt),
     ValidUntil     |-> t,
     Labels         |-> lbls,
     DockerPassword |-> ""]

\* the value built with the password kept in the unused password field
TokenValue_KeepsPassword(u, pw, lbls, t, salt) ==
    [TokenType      |-> "Basic",
     AccessToken    |-> GenerateFromPassword(getUserToken(u, pw), salt),
     ValidUntil     |-> t + RevalidateAfter,
     Labels         |-> lbls,
     DockerPassword |-> pw]

\* the value built at lines 142-147
TokenValue(u, pw, lbls, t, salt) ==
    [TokenType      |-> "Basic",
     AccessToken    |-> GenerateFromPassword(getUserToken(u, pw), salt),
     ValidUntil     |-> t + RevalidateAfter,
     Labels         |-> lbls,
     DockerPassword |-> ""]

\* the error storeToken returns
storeTokenErr(hashFails, writeFails) ==
    IF hashFails THEN HashError
    ELSE IF writeFails THEN DbWriteError
    ELSE Nil

\* storeToken updating a value that exists instead of replacing it: the
\* proof and the expiry are renewed, the labels of the old value are kept.
storeTokenDb_KeepsOldLabels(d, t, u, pw, lbls, salt, hashFails, writeFails) ==
    IF storeTokenErr(hashFails, writeFails) # Nil THEN d
    ELSE StoreToken(d, u,
                    TokenValue(u, pw, IF HasValue(d, u) THEN d[u].Labels
                                      ELSE lbls, t, salt),
                    FALSE)

\* the database storeToken leaves
storeTokenDb(d, t, u, pw, lbls, salt, hashFails, writeFails) ==
    IF storeTokenErr(hashFails, writeFails) # Nil THEN d
    ELSE StoreToken(d, u, TokenValue(u, pw, lbls, t, salt), FALSE)

-----------------------------------------------------------------------------
(* NewGiteaAuth, lines 55-66, and getApiUri, lines 68-74.  Durations are in
   seconds. *)

\* the Timeout of the http.Client built at line 63
ClientTimeout == 10

\* the configurations an authenticator is built from
Configs == [ApiUri : {"", "https://git.example/api"},
            TokenDB : {"/var/db/tokens"},
            HTTPTimeout : {0, 10, 30},
            RevalidateAfter : {RevalidateAfter}]

\* the configuration of the authenticator the calls of Spec run on
MainConfig == [ApiUri |-> "", TokenDB |-> "/var/db/tokens",
               HTTPTimeout |-> 10, RevalidateAfter |-> RevalidateAfter]

\* the object NewGiteaAuth returns when NewTokenDB succeeds
NewGiteaAuth(c) == [config |-> c, client |-> [Timeout |-> ClientTimeout]]

getApiUri(g) ==
    IF g.config.ApiUri # "" THEN g.config.ApiUri ELSE "https://gitea.com/api"

\* the request built at lines 77-82 and sent at line 83 with the client's
\* timeout
Request(g, u, pw) ==
    [url |-> getApiUri(g) \o "/v1/user/orgs", timeout |-> g.client.Timeout,
     user |-> u, password |-> pw]

-----------------------------------------------------------------------------
(* Authenticate, lines 161-186 *)

Pending == [ok |-> FALSE, labels |-> NoLabels, err |-> "pending"]
Returned(ok, lbls, err) == [ok |-> ok, labels |-> lbls, err |-> err]

\* Authenticate giving up when getValidToken fails with a storage error
AfterLookup_FailsOnReadError(err, d, u) ==
    IF err = Nil
    THEN [pc |-> "done", result |-> Returned(TRUE, d[u].Labels, Nil)]
    ELSE IF err = DbReadError
    THEN [pc |-> "done", result |-> Returned(FALSE, NoLabels, err)]
    ELSE [pc |-> "fetch", result |-> Pending]

\* Authenticate returning the rejection when the stored proof does not verify
AfterLookup_RejectsMismatch(err, d, u) ==
    IF err = Nil
    THEN [pc |-> "done", result |-> Returned(TRUE, d[u].Labels, Nil)]
    ELSE IF err = WrongPass
    THEN [pc |-> "done", result |-> Returned(FALSE, NoLabels, err)]
    ELSE [pc |-> "fetch", result |-> Pending]

\* lines 162-164: where the call goes once getValidToken has returned err,
\* and what it returns if it returns there
AfterLookup(err, d, u) ==
    IF err = Nil
    THEN [pc |-> "done", result |-> Returned(TRUE, d[u].Labels, Nil)]
    ELSE [pc |-> "fetch", result |-> Pending]

\* what Authenticate returns once storeToken has returned, lines 181-185
ReturnAfterStore(err, lbls) ==
    IF err # Nil THEN Returned(FALSE, NoLabels, err)
    ELSE Returned(TRUE, lbls, Nil)

\* what Authenticate returns when fetchUserOrgs failed, lines 167-169
ReturnAfterFetchError(err) == Returned(FALSE, NoLabels, err)

TypeOK ==
    /\ now \in 0..MaxTime
    /\ DOMAIN db \subseteq Users
    /\ pc \in [Calls -> {"idle", "fetch", "store", "done", "panic"}]
    /\ user \in [Calls -> Users]
    /\ password \in [Calls -> Passwords]
    /\ DOMAIN wrote = DOMAIN db

\* what construction leaves besides the object
InitCalls ==
    /\ db = <<>>
    /\ now = 0
    /\ pc = [c \in Calls |-> "idle"]
    /\ user = [c \in Calls |-> "alice"]
    /\ password = [c \in Calls |-> "pw1"]
    /\ userPasswd = [c \in Calls |-> NotCalled]
    /\ tokErr = [c \in Calls |-> NotCalled]
    /\ req = [c \in Calls |-> NoRequest]
    /\ http = [c \in Calls |-> NotCalled]
    /\ orgs = [c \in Calls |-> <<>>]
    /\ fetchErr = [c \in Calls |-> NotCalled]
    /\ labels = [c \in Calls |-> NoLabels]
    /\ storeErr = [c \in Calls |-> NotCalled]
    /\ result = [c \in Calls |-> Pending]
    /\ wrote = <<>>

Init ==
    /\ gta = NewGiteaAuth(MainConfig)
    /\ InitCalls

\* A call that renews the expiry of the stored value it was accepted from.
Lookup_SlidingExpiry(c, u, pw, readFails) ==
    /\ pc[c] \in {"idle", "done", "panic"}
    /\ user' = [user EXCEPT ![c] = u]
    /\ password' = [password EXCEPT ![c] = pw]
    /\ userPasswd' = [userPasswd EXCEPT ![c] = getUserToken(u, pw)]
    /\ req' = [req EXCEPT ![c] = NoRequest]
    /\ http' = [http EXCEPT ![c] = NotCalled]
    /\ orgs' = [orgs EXCEPT ![c] = <<>>]
    /\ fetchErr' = [fetchErr EXCEPT ![c] = NotCalled]
    /\ storeErr' = [storeErr EXCEPT ![c] = NotCalled]
    /\ labels' = [labels EXCEPT ![c] = NoLabels]
    /\ LET err == getValidToken(db, now, u, pw, readFails) IN
         /\ tokErr' = [tokErr EXCEPT ![c] = err]
         /\ pc' = [pc EXCEPT ![c] = AfterLookup(err, db, u).pc]
         /\ result' = [result EXCEPT ![c] = AfterLookup(err, db, u).result]
         /\ db' = IF err = Nil
                  THEN [db EXCEPT ![u].ValidUntil = now + RevalidateAfter]
                  ELSE db
    /\ UNCHANGED <<gta, now, wrote>>

\* A call begins: lines 161-164, up to the return of getValidToken.
Lookup(c, u, pw, readFails) ==
    /\ pc[c] \in {"idle", "done", "panic"}
    /\ user' = [user EXCEPT ![c] = u]
    /\ password' = [password EXCEPT ![c] = pw]
    /\ userPasswd' = [userPasswd EXCEPT ![c] = getUserToken(u, pw)]
    /\ req' = [req EXCEPT ![c] = NoRequest]
    /\ http' = [http EXCEPT ![c] = NotCalled]
    /\ orgs' = [orgs EXCEPT ![c] = <<>>]
    /\ fetchErr' = [fetchErr EXCEPT ![c] = NotCalled]
    /\ storeErr' = [storeErr EXCEPT ![c] = NotCalled]
    /\ labels' = [labels EXCEPT ![c] = NoLabels]
    /\ LET err == getValidToken(db, now, u, pw, readFails) IN
         /\ tokErr' = [tokErr EXCEPT ![c] = err]
         /\ pc' = [pc EXCEPT ![c] = AfterLookup(err, db, u).pc]
         /\ result' = [result EXCEPT ![c] = AfterLookup(err, db, u).result]
    /\ UNCHANGED <<gta, db, now, wrote>>

\* lines 166-179: the HTTP exchange and the building of the labels.
Fetch(c, outcome, body) ==
    /\ pc[c] = "fetch"
    /\ req' = [req EXCEPT ![c] = Request(gta, user[c], password[c])]
    /\ http' = [http EXCEPT ![c] = outcome]
    /\ LET err == fetchUserOrgs(outcome) IN
         /\ fetchErr' = [fetchErr EXCEPT ![c] = err]
         /\ IF err # Nil
            THEN /\ pc' = [pc EXCEPT ![c] = "done"]
                 /\ result' = [result EXCEPT ![c] = ReturnAfterFetchError(err)]
                 /\ UNCHANGED <<labels, orgs>>
            ELSE /\ result' = result
                 /\ orgs' = [orgs EXCEPT ![c] = body]
                 /\ IF \E i \in DOMAIN body : body[i] = NilOrg
                    THEN \* org.Name on a nil pointer, line 174: the call panics
                         /\ pc' = [pc EXCEPT ![c] = "panic"]
                         /\ UNCHANGED labels
                    ELSE /\ pc' = [pc EXCEPT ![c] = "store"]
                         /\ labels' = [labels EXCEPT ![c] = GroupLabels(body)]
    /\ UNCHANGED <<gta, db, now, user, password, userPasswd, tokErr, storeErr,
                   wrote>>

\* lines 181-185: storeToken and the return.
Store(c, salt, hashFails, writeFails) ==
    /\ pc[c] = "store"
    /\ LET err == storeTokenErr(hashFails, writeFails) IN
         /\ storeErr' = [storeErr EXCEPT ![c] = err]
         /\ result' = [result EXCEPT ![c] = ReturnAfterStore(err, labels[c])]
    /\ db' = storeTokenDb(db, now, user[c], password[c], labels[c], salt,
                          hashFails, writeFails)
    /\ wrote' = IF storeTokenErr(hashFails, writeFails) # Nil THEN wrote
                ELSE [k \in DOMAIN wrote \cup {user[c]} |->
                        IF k = user[c]
                        THEN [user |-> user[c], password |-> password[c],
                              http |-> http[c], orgs |-> orgs[c],
                              labels |-> labels[c], at |-> now]
                        ELSE wrote[k]]
    /\ pc' = [pc EXCEPT ![c] = "done"]
    /\ UNCHANGED <<gta, now, user, password, userPasswd, tokErr, req, http,
                   orgs, fetchErr, labels>>

\* Time passes.
Tick ==
    /\ now < MaxTime
    /\ now' = now + 1
    /\ UNCHANGED <<gta, db, pc, user, password, userPasswd, tokErr, req, http,
                   orgs, fetchErr, labels, storeErr, result, wrote>>

\* The concurrent calls are all for one principal.
Principal == "alice"

DoLookup == \E c \in Calls, pw \in Passwords, f \in BOOLEAN :
               Lookup(c, Principal, pw, f)
DoFetch == \E c \in Calls, o \in HttpOutcomes, body \in OrgLists :
               Fetch(c, o, body)
DoStore == \E c \in Calls, s \in Salts, hf \in BOOLEAN, wf \in BOOLEAN :
               Store(c, s, hf, wf)

Next == DoLookup \/ DoFetch \/ DoStore \/ Tick

Spec == Init /\ [][Next]_vars

\* One call at a time, for any user: what a call for one user does to the
\* value of another.
SoleCall == "c1"

NextUsers ==
    \/ \E u \in Users, pw \in Passwords, f \in BOOLEAN :
           Lookup(SoleCall, u, pw, f)
    \/ \E o \in HttpOutcomes, body \in OrgLists : Fetch(SoleCall, o, body)
    \/ \E s \in Salts, hf \in BOOLEAN, wf \in BOOLEAN :
           Store(SoleCall, s, hf, wf)
    \/ Tick

SpecUsers == Init /\ [][NextUsers]_vars

\* One call at a time on an authenticator built from any configuration.
InitConfig ==
    /\ gta \in {NewGiteaAuth(c) : c \in Configs}
    /\ InitCalls

SpecConfig == InitConfig /\ [][NextUsers]_vars

\* The plain proof alone, for users and passwords in which the separator
\* occurs: each call is given a pair and computes its proof (line 112).
ProofUsers == {"a", "a:b", "ab"}
ProofPasswords == {"c", "b:c", "bc"}

InitProof ==
    /\ gta = NewGiteaAuth(MainConfig)
    /\ db = <<>>
    /\ now = 0
    /\ pc = [c \in Calls |-> "idle"]
    /\ user \in [Calls -> ProofUsers]
    /\ password \in [Calls -> ProofPasswords]
    /\ userPasswd = [c \in Calls |-> NotCalled]
    /\ tokErr = [c \in Calls |-> NotCalled]
    /\ req = [c \in Calls |-> NoRequest]
    /\ http = [c \in Calls |-> NotCalled]
    /\ orgs = [c \in Calls |-> <<>>]
    /\ fetchErr = [c \in Calls |-> NotCalled]
    /\ labels = [c \in Calls |-> NoLabels]
    /\ storeErr = [c \in Calls |-> NotCalled]
    /\ result = [c \in Calls |-> Pending]
    /\ wrote = <<>>

ComputeProof(c) ==
    /\ userPasswd[c] = NotCalled
    /\ userPasswd' = [userPasswd EXCEPT
                          ![c] = getUserToken(user[c], password[c])]
    /\ UNCHANGED <<gta, db, now, pc, user, password, tokErr, req, http, orgs,
                   fetchErr, labels, storeErr, result, wrote>>

NextProof == \E c \in Calls : ComputeProof(c)

SpecProof == InitProof /\ [][NextProof]_vars

-----------------------------------------------------------------------------
(* What the properties below speak of. *)

\* Call c takes the step: one of its own variables changes.
Local(c) == <<pc[c], user[c], password[c], userPasswd[c], tokErr[c], req[c],
              http[c], orgs[c], fetchErr[c], labels[c], storeErr[c],
              result[c]>>
Moves(c) == Local(c)' # Local(c)

\* The steps of call c.
LookupStep(c) == Moves(c) /\ pc[c] \in {"idle", "done", "panic"}
FetchStep(c) == Moves(c) /\ pc[c] = "fetch"
StoreStep(c) == Moves(c) /\ pc[c] = "store"

\* The stored value of user u verifies against password pw.
Verifies(d, u, pw) ==
    CompareHashAndPassword(d[u].AccessToken, getUserToken(u, pw))

\* Call c has returned.
Done(c) == pc[c] = "done"

-----------------------------------------------------------------------------
(* C1: every value in the token database was stored by a call whose HTTP
   lookup succeeded for the value's user and the password its proof
   verifies against; the database changes only in the storeToken step of a
   call whose lookup succeeded. *)
C1_Provenance ==
    \A u \in DOMAIN db :
        /\ u \in DOMAIN wrote
        /\ wrote[u].user = u
        /\ wrote[u].http = "ok"
        /\ Verifies(db, u, wrote[u].password)

C1_WrittenOnlyAfterSuccess ==
    db' # db => \E c \in Calls : /\ StoreStep(c)
                                 /\ http[c] = "ok"
                                 /\ DOMAIN db' = DOMAIN db \cup {user[c]}
                                 /\ Verifies(db', user[c], password[c])
                                 /\ \A k \in DOMAIN db \ {user[c]} :
                                        db'[k] = db[k]

C1_CacheOnlyFromVerified ==
    [](C1_Provenance) /\ [][C1_WrittenOnlyAfterSuccess]_vars

\* A value is stored while some call was turned down by the remote with a
\* wrong password and another failed operationally.
C1_Witness ==
    /\ Principal \in DOMAIN db
    /\ \E c, d \in Calls : /\ Done(c) /\ http[c] = "status401"
                           /\ Done(d) /\ http[d] = "statusOther"

-----------------------------------------------------------------------------
(* C2: when getValidToken finds a stored value whose proof does not verify
   against the presented password, Authenticate returns false with
   api.WrongPass and the HTTP lookup is not made in that call. *)
C2_MismatchShortCircuit ==
    \A c \in Calls :
        tokErr[c] = WrongPass =>
            /\ http[c] = NotCalled
            /\ Done(c) => result[c] = Returned(FALSE, NoLabels, WrongPass)

-----------------------------------------------------------------------------
(* C3: a call that finds no stored value for its user goes on to the HTTP
   lookup; a call that reads a stored value that verifies against its
   password and is not expired (now <= ValidUntil) returns true with the
   stored labels without the HTTP lookup. *)
C3_MissGoesRemote ==
    \A c \in Calls :
        tokErr[c] = NoMatch =>
            \/ pc[c] = "fetch" /\ http[c] = NotCalled
            \/ pc[c] # "fetch" /\ http[c] # NotCalled

C3_LookupStep ==
    \A c \in Calls :
        LookupStep(c) /\ tokErr'[c] # DbReadError =>
            LET u == user'[c] IN
            /\ ~HasValue(db, u) => pc'[c] = "fetch" /\ tokErr'[c] = NoMatch
            /\ ( /\ HasValue(db, u)
                 /\ Verifies(db, u, password'[c])
                 /\ now <= db[u].ValidUntil )
               => /\ pc'[c] = "done"
                  /\ result'[c] = Returned(TRUE, db[u].Labels, Nil)
                  /\ http'[c] = NotCalled

C3_CacheCorrectness ==
    [](C3_MissGoesRemote) /\ [][C3_LookupStep]_vars

\* One call was accepted from the stored value at the last instant of its
\* validity without the HTTP lookup; another found no value and made the
\* HTTP lookup.
C3_Witness ==
    \E c, d \in Calls :
        /\ Done(c) /\ tokErr[c] = Nil /\ result[c].ok /\ http[c] = NotCalled
        /\ HasValue(db, user[c]) /\ now = db[user[c]].ValidUntil
        /\ wrote[user[c]].at + RevalidateAfter = now
        /\ Done(d) /\ tokErr[d] = NoMatch /\ http[d] # NotCalled

-----------------------------------------------------------------------------
(* C4: a call that finds a stored value that verifies but is expired
   (now > ValidUntil) is not accepted from it: it makes the HTTP lookup, and
   whether it returns true is decided by the outcome of that lookup alone. *)
C4_ExpiryEnforcement ==
    \A c \in Calls :
        tokErr[c] = ExpiredToken =>
            /\ pc[c] # "fetch" => http[c] # NotCalled
            /\ Done(c) => (result[c].ok <=> http[c] = "ok")

-----------------------------------------------------------------------------
(* C5: when the HTTP lookup succeeded and storeToken then fails,
   Authenticate still returns true with the labels it built. *)
C5_BestEffortCaching ==
    \A c \in Calls :
        Done(c) /\ http[c] = "ok" /\ storeErr[c] \notin {Nil, NotCalled} =>
            result[c] = Returned(TRUE, labels[c], Nil)

-----------------------------------------------------------------------------
(* C6: when db.GetValue fails, Authenticate does not return on that error:
   it goes on to the HTTP lookup as it does when no value is stored, and
   returns what the lookup and the store give. *)
RemotePathResult(c) ==
    IF fetchErr[c] # Nil THEN Returned(FALSE, NoLabels, fetchErr[c])
    ELSE IF storeErr[c] # Nil THEN Returned(FALSE, NoLabels, storeErr[c])
    ELSE Returned(TRUE, labels[c], Nil)

C6_ReadErrorState ==
    \A c \in Calls :
        tokErr[c] = DbReadError =>
            /\ result[c].err # DbReadError
            /\ pc[c] # "fetch" => http[c] # NotCalled
            /\ Done(c) => result[c] = RemotePathResult(c)

C6_ReadErrorStep ==
    \A c \in Calls :
        LookupStep(c) /\ tokErr'[c] \in {DbReadError, NoMatch} =>
            /\ pc'[c] = "fetch"
            /\ http'[c] = NotCalled
            /\ result'[c] = Pending

C6_ReadErrorIsMiss ==
    [](C6_ReadErrorState) /\ [][C6_ReadErrorStep]_vars

\* A call whose read of the database failed was accepted by the remote and
\* stored its value.
C6_Witness ==
    \E c \in Calls :
        /\ Done(c) /\ tokErr[c] = DbReadError /\ http[c] = "ok"
        /\ storeErr[c] = Nil /\ result[c].ok

-----------------------------------------------------------------------------
(* C7: when the HTTP lookup does not succeed (401, another status, a
   transport failure, a body that cannot be read or parsed), Authenticate
   returns false with no labels, and no step of the call up to that return
   changes the token database. *)
FailedOutcomes == HttpOutcomes \ {"ok"}

C7_FailedState ==
    \A c \in Calls :
        Done(c) /\ http[c] \in FailedOutcomes =>
            /\ result[c].ok = FALSE
            /\ result[c].labels = NoLabels
            /\ result[c].err \notin {Nil, "pending"}
            /\ storeErr[c] = NotCalled

C7_FailedStep ==
    \A c \in Calls :
        \/ LookupStep(c)
        \/ FetchStep(c) /\ http'[c] \in FailedOutcomes
        => db' = db

C7_FailureLeavesCache ==
    [](C7_FailedState) /\ [][C7_FailedStep]_vars

\* A call found an expired value, its lookup failed in transport, and the
\* expired value is still stored.
C7_Witness ==
    \E c \in Calls :
        /\ Done(c) /\ tokErr[c] = ExpiredToken /\ http[c] = "transportError"
        /\ HasValue(db, user[c]) /\ now > db[user[c]].ValidUntil
        /\ Verifies(db, user[c], password[c])

-----------------------------------------------------------------------------
(* C8: Authenticate returns api.WrongPass exactly when the credential was
   rejected (HTTP 401, or a stored proof that does not verify); a transport
   failure, another status, a body that cannot be read or parsed gives an
   error that is not api.WrongPass. *)
C8_ErrorClassification ==
    \A c \in Calls :
        Done(c) =>
            /\ result[c].err = WrongPass
                   <=> (http[c] = "status401" \/ tokErr[c] = WrongPass)
            /\ http[c] \in FailedOutcomes \ {"status401"}
                   => result[c].err \notin {WrongPass, Nil}

-----------------------------------------------------------------------------
(* C9: under any interleaving of the calls, the stored value of a user is
   as a whole the value one call stored: its proof, its expiry and its
   labels are those of the last call whose storeToken succeeded, a call
   whose HTTP lookup had succeeded. *)
C9_WholeRecord ==
    \A u \in DOMAIN db :
        /\ u \in DOMAIN wrote
        /\ wrote[u].http = "ok"
        /\ Verifies(db, u, wrote[u].password)
        /\ \A pw \in Passwords \ {wrote[u].password} : ~Verifies(db, u, pw)
        /\ db[u].ValidUntil = wrote[u].at + RevalidateAfter
        /\ db[u].Labels = wrote[u].labels
        /\ db[u].TokenType = "Basic"

\* Two calls that both found no value validated different passwords with
\* different labels and both stored.
C9_Witness ==
    \E c, d \in Calls :
        /\ c # d /\ user[c] = user[d]
        /\ Done(c) /\ tokErr[c] = NoMatch /\ storeErr[c] = Nil
        /\ Done(d) /\ tokErr[d] = NoMatch /\ storeErr[d] = Nil
        /\ password[c] # password[d] /\ labels[c] # labels[d]
        /\ wrote[user[c]].password = password[d]

-----------------------------------------------------------------------------
(* C10: the storeToken step of a call that succeeds at time now leaves, for
   the call's user, one value: its proof verifies against the call's
   password and no other, its ValidUntil is now + RevalidateAfter, its
   labels are the labels the call returns; the value stored before is
   gone, also when it held the proof of another password. *)
C10_StoreStep ==
    \A c \in Calls :
        StoreStep(c) /\ storeErr'[c] = Nil =>
            LET u == user[c] IN
            /\ DOMAIN db' = DOMAIN db \cup {u}
            /\ Verifies(db', u, password[c])
            /\ \A pw \in Passwords \ {password[c]} : ~Verifies(db', u, pw)
            /\ db'[u].ValidUntil = now + RevalidateAfter
            /\ db'[u].Labels = result'[c].labels
            /\ result'[c].ok

C10_WriteThrough == [][C10_StoreStep]_vars

\* A call found the proof of another password stored, validated its own
\* and stored it, with other labels than the call before.
C10_Witness ==
    \E c \in Calls :
        /\ Done(c) /\ tokErr[c] = WrongPass /\ storeErr[c] = Nil
        /\ Verifies(db, user[c], password[c])
        /\ db[user[c]].ValidUntil = now + RevalidateAfter
        /\ db[user[c]].Labels = labels[c]
        /\ now > 0

-----------------------------------------------------------------------------
(* C11: whenever Authenticate returns true its labels have the key "group";
   on the remote path its value is the names of the organisations
   fetchUserOrgs returned, in their order (no name when there is none); a
   call accepted from the stored value returns the labels of the call that
   stored the value, built from the organisations that call fetched. *)
GroupValues(lbls) == {kv \in lbls : kv[1] = "group"}
GroupOf(lbls) == (CHOOSE kv \in lbls : kv[1] = "group")[2]

\* g is the names of the organisations os, in their order
IsNamesOf(g, os) ==
    /\ Len(g) = Len(os)
    /\ \A i \in 1..Len(os) : g[i] = os[i].Name

C11_ReturnedLabels ==
    \A c \in Calls :
        Done(c) /\ result[c].ok =>
            /\ Cardinality(GroupValues(result[c].labels)) = 1
            /\ tokErr[c] # Nil =>
                   IsNamesOf(GroupOf(result[c].labels), orgs[c])

C11_HitStep ==
    \A c \in Calls :
        LookupStep(c) /\ pc'[c] = "done" =>
            /\ result'[c].ok
            /\ wrote[user'[c]].http = "ok"
            /\ result'[c].labels = wrote[user'[c]].labels
            /\ IsNamesOf(GroupOf(result'[c].labels), wrote[user'[c]].orgs)

C11_GroupLabels == [](C11_ReturnedLabels) /\ [][C11_HitStep]_vars

\* One call was accepted from the stored value with two groups that are
\* not in alphabetical order; another was accepted by the remote with no
\* organisation.
C11_Witness ==
    \E c, d \in Calls :
        /\ Done(c) /\ tokErr[c] = Nil /\ result[c].ok
        /\ GroupOf(result[c].labels) = <<"teamB", "teamA">>
        /\ Done(d) /\ tokErr[d] # Nil /\ result[d].ok
        /\ GroupOf(result[d].labels) = <<>>

-----------------------------------------------------------------------------
(* C12: no field of a stored value is a password or a plain proof
   "user:password"; the one field derived from the password is AccessToken,
   the bcrypt hash of the plain proof. *)
Secrets == Passwords \cup PlainProofs

C12_NoPlaintext ==
    \A u \in DOMAIN db :
        /\ DOMAIN db[u] = {"TokenType", "AccessToken", "ValidUntil", "Labels",
                           "DockerPassword"}
        /\ db[u].TokenType \notin Secrets
        /\ db[u].DockerPassword \notin Secrets
        /\ db[u].ValidUntil \in 0..(MaxTime + RevalidateAfter)
        /\ \A kv \in db[u].Labels :
               /\ kv[1] \notin Secrets
               /\ \A i \in 1..Len(kv[2]) : kv[2][i] \notin Secrets
        /\ db[u].AccessToken.salt \in Salts
        /\ \E pw \in Passwords :
               db[u].AccessToken =
                   GenerateFromPassword(getUserToken(u, pw), db[u].AccessToken.salt)

\* Values hashed with either salt have been stored for a password that a
\* call has just been accepted with.
C12_Witness ==
    \E c, d \in Calls :
        /\ Done(c) /\ storeErr[c] = Nil /\ result[c].ok
        /\ Done(d) /\ storeErr[d] = Nil /\ result[d].ok
        /\ password[c] = "pw1" /\ password[d] = "pw2"
        /\ db[Principal].AccessToken.salt = "s2"
        /\ db[Principal].Labels # GroupLabels(<<>>)

-----------------------------------------------------------------------------
(* C13: two different (user, password) pairs never give the same plain
   proof, also when the user or the password contains the separator ":". *)
C13_ProofCollisionFree ==
    \A c, d \in Calls :
        ( /\ userPasswd[c] # NotCalled
          /\ userPasswd[d] # NotCalled
          /\ <<user[c], password[c]>> # <<user[d], password[d]>> )
        => userPasswd[c] # userPasswd[d]

-----------------------------------------------------------------------------
(* C14: every call follows the state machine of Authenticate and ends by
   returning an accept, a rejection or a failure: the HTTP lookup is made
   only after getValidToken did not accept, storeToken is called only after
   the HTTP lookup succeeded, and a call never ends without returning. *)
Accepts(c) == result[c].ok /\ result[c].err = Nil
Rejects(c) == ~result[c].ok /\ result[c].err = WrongPass
Fails(c) == ~result[c].ok /\ result[c].err \notin {Nil, WrongPass, "pending"}

C14_StateMachine ==
    \A c \in Calls :
        /\ pc[c] \in {"idle", "fetch", "store", "done"}
        /\ pc[c] # "idle" => tokErr[c] # NotCalled
        /\ http[c] # NotCalled => tokErr[c] \notin {Nil, NotCalled}
        /\ pc[c] = "fetch" => http[c] = NotCalled /\ storeErr[c] = NotCalled
        /\ pc[c] = "store" => http[c] = "ok" /\ storeErr[c] = NotCalled
        /\ storeErr[c] # NotCalled => http[c] = "ok" /\ Done(c)
        /\ Done(c) => \/ Accepts(c) /\ ~Rejects(c) /\ ~Fails(c)
                      \/ Rejects(c) /\ ~Accepts(c) /\ ~Fails(c)
                      \/ Fails(c) /\ ~Accepts(c) /\ ~Rejects(c)

-----------------------------------------------------------------------------
(* C15: the timeout of the HTTP request fetchUserOrgs sends is the
   HTTPTimeout of the configuration the authenticator was built from. *)
C15_TimeoutHonoured ==
    \A c \in Calls :
        req[c] # NoRequest => req[c].timeout = gta.config.HTTPTimeout

-----------------------------------------------------------------------------
(* C16: whatever is stored for the user (nothing, an expired value, the
   proof of another password), a call that getValidToken does not accept
   is not turned down before the remote is asked; when the remote accepts
   and storeToken succeeds the call returns true, and the value it stores
   verifies against its password. *)
C16_AsksRemote ==
    \A c \in Calls :
        tokErr[c] \notin {Nil, NotCalled} /\ http[c] = NotCalled =>
            pc[c] = "fetch" /\ result[c] = Pending

C16_Accepted ==
    \A c \in Calls :
        Done(c) /\ http[c] = "ok" /\ storeErr[c] = Nil =>
            result[c].ok /\ result[c].err = Nil

C16_StoreStep ==
    \A c \in Calls :
        StoreStep(c) /\ storeErr'[c] = Nil =>
            /\ HasValue(db', user[c])
            /\ Verifies(db', user[c], password[c])

C16_NoLockout ==
    [](C16_AsksRemote /\ C16_Accepted) /\ [][C16_StoreStep]_vars

\* One call found the proof of another password stored and was accepted
\* by the remote; another found its own proof expired and was accepted.
C16_Witness ==
    \E c, d \in Calls :
        /\ Done(c) /\ tokErr[c] = WrongPass /\ http[c] = "ok" /\ result[c].ok
        /\ Verifies(db, user[c], password[c])
        /\ Done(d) /\ tokErr[d] = ExpiredToken /\ http[d] = "ok"
        /\ result[d].ok

-----------------------------------------------------------------------------
(* C17: a call returns true for (user, password) at time now only if the
   remote accepted that pair in the same call, or a call the remote had
   accepted for that pair stored the value at a time at with
   now <= at + RevalidateAfter. *)
C17_BackedByRemote ==
    \A c \in Calls :
        Done(c) /\ result[c].ok /\ tokErr[c] # Nil =>
            /\ http[c] = "ok"
            /\ req[c].user = user[c]
            /\ req[c].password = password[c]

C17_HitStep ==
    \A c \in Calls :
        LookupStep(c) /\ pc'[c] = "done" /\ result'[c].ok =>
            /\ HasValue(wrote, user'[c])
            /\ wrote[user'[c]].user = user'[c]
            /\ wrote[user'[c]].password = password'[c]
            /\ wrote[user'[c]].http = "ok"
            /\ now <= wrote[user'[c]].at + RevalidateAfter

C17_BoundedStaleness ==
    [](C17_BackedByRemote) /\ [][C17_HitStep]_vars

\* A call was accepted from the value stored for its password exactly one
\* revalidation window after the store.
C17_Witness ==
    \E c \in Calls :
        /\ Done(c) /\ tokErr[c] = Nil /\ result[c].ok
        /\ password[c] = "pw2"
        /\ wrote[user[c]].password = "pw2"
        /\ now = wrote[user[c]].at + RevalidateAfter

-----------------------------------------------------------------------------
(* C18: the step in which a call is accepted from the stored value leaves
   the token database as it is; the expiry of a value is the one its store
   set, however often it is used. *)
C18_HitStep ==
    \A c \in Calls :
        LookupStep(c) /\ tokErr'[c] = Nil => db' = db

C18_HitIsReadOnly == [][C18_HitStep]_vars

\* Both calls were accepted from the same stored value, after the clock
\* moved, and its expiry is still the one its store set.
C18_Witness ==
    \E c, d \in Calls :
        /\ c # d
        /\ Done(c) /\ tokErr[c] = Nil /\ result[c].ok
        /\ Done(d) /\ tokErr[d] = Nil /\ result[d].ok
        /\ user[c] = user[d]
        /\ now > wrote[user[c]].at
        /\ db[user[c]].ValidUntil = wrote[user[c]].at + RevalidateAfter

====
